---- MODULE Spec2Model ----
(***************************************************************************)
(* The exam session lifecycle of exam_server.py: the eligibility gate      *)
(* (/api/exam/start), the in-progress store (/api/save-progress), the      *)
(* grader (/api/submit/exam) and the question authoring that changes what  *)
(* they read (/api/exams/settings, /api/questions/single-upload,           *)
(* /api/question/delete), over the four SQLite tables they share.          *)
(*                                                                         *)
(* Every request opens its own connection.  A handler's writes become      *)
(* visible at its conn.commit(), all at once; a connection closed without  *)
(* commit rolls its writes back.  SELECTs run outside any transaction.     *)
(* submit_exam therefore takes two steps: its SELECT and grading, and its  *)
(* INSERT/DELETE/commit.  Handlers with a single write transaction, and    *)
(* the read-only check_exam_eligibility, are one step.                     *)
(*                                                                         *)
(* Columns that are only carried along (exam_title, school_name,           *)
(* passing_percentage, image_url, submission_time) are left out.           *)
(***************************************************************************)
EXTENDS Integers, Sequences, FiniteSets, TLC

VARIABLES
    students,            \* table students: rows [student_id, teacher_id, student_name]
    questions,           \* table questions: rows keyed by (exam_id, question_text)
    results,             \* table results: rows in insertion order
    in_progress_exams,   \* table in_progress_exams: rows keyed by (student_id, exam_id)
    sub,                 \* the submit_exam request between its SELECT and its transaction
    resp,                \* the response of the handler that returned last
    last_save,           \* history: per (student_id, exam_id), the body of the last
                         \* save_progress that returned 200 since the last Result of the pair
    started              \* history: the request and the real questions of the exam at the
                         \* last check_exam_eligibility that returned 200

vars == <<students, questions, results, in_progress_exams, sub, resp, last_save, started>>

\* ------------------------------------------------------------------ values

None == "None"                   \* Python's None
Placeholder == "placeholder"     \* question_text of the row that holds an exam's settings

MaxResults == 2                  \* rows the results table may hold in the model

Has(data, f) == f \in DOMAIN data
EmptyMap == <<>>

\* json.dumps of a JSON object with string keys and values: its members, one by one
RECURSIVE json_dumps(_)
json_dumps(m) ==
    IF DOMAIN m = {} THEN <<>>
    ELSE LET k == CHOOSE x \in DOMAIN m : TRUE
         IN  <<[key |-> k, value |-> m[k]]>> \o json_dumps([x \in DOMAIN m \ {k} |-> m[x]])

\* json.loads of such a text: the object with the members the text lists
json_loads(text) ==
    [k \in {text[i].key : i \in DOMAIN text} |->
        (CHOOSE v \in {text[i].value : i \in DOMAIN text} :
            \E i \in DOMAIN text : text[i].key = k /\ text[i].value = v)]

\* dict.get(key): the value, or None when the key is absent
dict_get(d, key) == IF key \in DOMAIN d THEN d[key] ELSE None

\* every order in which a SELECT without ORDER BY may return a set of rows, and
\* every order random.shuffle may leave them in
Orderings(S) ==
    {f \in [1..Cardinality(S) -> S] : \A i, j \in 1..Cardinality(S) : i # j => f[i] # f[j]}

\* SELECT ... LIMIT 1 and fetchone(): any one of the rows as <<row>>, or NoRow for
\* the None that fetchone() returns when there is no row
NoRow == <<>>
FetchOne(rows) == IF rows = {} THEN {NoRow} ELSE {<<r>> : r \in rows}

\* ------------------------------------------------------------------ tables

StudentRow(student_id, teacher_id, student_name) ==
    [student_id |-> student_id, teacher_id |-> teacher_id, student_name |-> student_name]

QuestionRow(exam_id, teacher_id, question_text, correct_option, options, duration, allowed_attempts, enable_analysis_report) ==
    [exam_id |-> exam_id, teacher_id |-> teacher_id, question_text |-> question_text,
     correct_option |-> correct_option, options |-> options, duration |-> duration,
     allowed_attempts |-> allowed_attempts,
     enable_analysis_report |-> enable_analysis_report]

ResultRow(result_id, exam_id, student_id, student_name, teacher_id, score, answers) ==
    [result_id |-> result_id, exam_id |-> exam_id, student_id |-> student_id,
     student_name |-> student_name, teacher_id |-> teacher_id, score |-> score,
     answers |-> answers]

InProgressRow(student_id, exam_id, teacher_id, answers, time_left, question_status) ==
    [student_id |-> student_id, exam_id |-> exam_id, teacher_id |-> teacher_id,
     answers |-> answers, time_left |-> time_left, question_status |-> question_status]

\* the rows of an exam, and its real (non-placeholder) questions
ExamRows(exam_id) == {q \in questions : q.exam_id = exam_id}
RealRows(exam_id) == {q \in questions : q.exam_id = exam_id /\ q.question_text # Placeholder}

\* the settings row save_exam_settings keeps for (exam_id, teacher_id)
SettingsRows(exam_id, teacher_id) ==
    {q \in questions : q.exam_id = exam_id /\ q.teacher_id = teacher_id
                       /\ q.question_text = Placeholder}

\* INSERT OR REPLACE INTO questions: the primary key is (exam_id, question_text)
ReplaceQuestion(table, row) ==
    {q \in table : ~(q.exam_id = row.exam_id /\ q.question_text = row.question_text)}
        \cup {row}

\* the same SELECT without its question_text != "placeholder"
ShownQuestions_AllRows(exam_id) ==
    {[question_text |-> q.question_text, options |-> q.options] : q \in ExamRows(exam_id)}

\* line 449: SELECT question_text, options, image_url of the real questions
ShownQuestions(exam_id) ==
    {[question_text |-> q.question_text, options |-> q.options] : q \in RealRows(exam_id)}

\* line 567: SELECT question_text, correct_option, options of the real questions
GradedQuestions(exam_id) ==
    {[question_text |-> q.question_text, correct_option |-> q.correct_option,
      options |-> q.options] : q \in RealRows(exam_id)}

\* SELECT COUNT(*) FROM results WHERE student_id = ? AND exam_id = ?
CountResults(student_id, exam_id) ==
    Cardinality({i \in DOMAIN results :
                    results[i].student_id = student_id /\ results[i].exam_id = exam_id})

\* SELECT ... FROM in_progress_exams WHERE student_id = ? AND exam_id = ?
InProgressOf(student_id, exam_id) ==
    {r \in in_progress_exams : r.student_id = student_id /\ r.exam_id = exam_id}

\* ------------------------------------------------ POST /api/exam/start

\* a payload that starts every session afresh, whatever was saved
EligiblePayload_Fresh(data, exam_settings, attempts_taken, student_data, questions_list, in_progress_data) ==
    [op |-> "start", status |-> 200, request |-> data,
     message |-> "Eligibility check passed.",
     student_name |-> student_data[1].student_name,
     teacher_id |-> student_data[1].teacher_id,
     exam_data |->
        [duration |-> exam_settings[1].duration,
         allowed_attempts |-> exam_settings[1].allowed_attempts,
         enable_analysis_report |-> (exam_settings[1].enable_analysis_report # 0),
         questions |-> questions_list,
         answers |-> EmptyMap,
         question_status |-> EmptyMap,
         time_left |-> exam_settings[1].duration * 60,
         attempt_number |-> attempts_taken + 1]]

\* a payload whose time_left for a new session is the duration as stored, in
\* minutes
EligiblePayload_TimeInMinutes(data, exam_settings, attempts_taken, student_data, questions_list, in_progress_data) ==
    [op |-> "start", status |-> 200, request |-> data,
     message |-> "Eligibility check passed.",
     student_name |-> student_data[1].student_name,
     teacher_id |-> student_data[1].teacher_id,
     exam_data |->
        [duration |-> exam_settings[1].duration,
         allowed_attempts |-> exam_settings[1].allowed_attempts,
         enable_analysis_report |-> (exam_settings[1].enable_analysis_report # 0),
         questions |-> questions_list,
         answers |-> IF in_progress_data # NoRow
                     THEN json_loads(in_progress_data[1].answers) ELSE EmptyMap,
         question_status |-> IF in_progress_data # NoRow
                             THEN json_loads(in_progress_data[1].question_status)
                             ELSE EmptyMap,
         time_left |-> IF in_progress_data # NoRow
                       THEN in_progress_data[1].time_left
                       ELSE exam_settings[1].duration,
         attempt_number |-> attempts_taken + 1]]

\* a payload that takes a saved session whose time has run out as over, and
\* starts afresh
EligiblePayload_ExpiredRestarts(data, exam_settings, attempts_taken, student_data, questions_list, in_progress_data) ==
    LET live == in_progress_data # NoRow /\ in_progress_data[1].time_left > 0
    IN  [op |-> "start", status |-> 200, request |-> data,
         message |-> "Eligibility check passed.",
         student_name |-> student_data[1].student_name,
         teacher_id |-> student_data[1].teacher_id,
         exam_data |->
            [duration |-> exam_settings[1].duration,
             allowed_attempts |-> exam_settings[1].allowed_attempts,
             enable_analysis_report |-> (exam_settings[1].enable_analysis_report # 0),
             questions |-> questions_list,
             answers |-> IF live THEN json_loads(in_progress_data[1].answers) ELSE EmptyMap,
             question_status |-> IF live THEN json_loads(in_progress_data[1].question_status)
                                 ELSE EmptyMap,
             time_left |-> IF live THEN in_progress_data[1].time_left
                           ELSE exam_settings[1].duration * 60,
             attempt_number |-> attempts_taken + 1]]

\* lines 469-488: the payload of an eligible student
EligiblePayload(data, exam_settings, attempts_taken, student_data, questions_list, in_progress_data) ==
    [op |-> "start", status |-> 200, request |-> data,
     message |-> "Eligibility check passed.",
     student_name |-> student_data[1].student_name,
     teacher_id |-> student_data[1].teacher_id,
     exam_data |->
        [duration |-> exam_settings[1].duration,
         allowed_attempts |-> exam_settings[1].allowed_attempts,
         enable_analysis_report |-> (exam_settings[1].enable_analysis_report # 0),
         questions |-> questions_list,
         answers |-> IF in_progress_data # NoRow
                     THEN json_loads(in_progress_data[1].answers) ELSE EmptyMap,
         question_status |-> IF in_progress_data # NoRow
                             THEN json_loads(in_progress_data[1].question_status)
                             ELSE EmptyMap,
         time_left |-> IF in_progress_data # NoRow
                       THEN in_progress_data[1].time_left
                       ELSE exam_settings[1].duration * 60,
         attempt_number |-> attempts_taken + 1]]

\* lines 455-461: what a student is shown of a question
ShownQuestion(q) == [question_text |-> q.question_text, options |-> json_loads(q.options)]

\* a gate that asks only whether the student is on some roster
Eligibility_AnyRoster(data, exam_teacher, exam_settings, shuffled) ==
    LET student_id == data.student_id
        exam_id == data.exam_id
        attempts_taken == CountResults(student_id, exam_id)
    IN  IF exam_teacher = NoRow
        THEN [op |-> "start", status |-> 404, request |-> data,
              message |-> "Exam not found."]
        ELSE IF ~\E st \in students : st.student_id = student_id
        THEN [op |-> "start", status |-> 404, request |-> data,
              message |-> "Student ID not found or not associated with this exam."]
        ELSE IF exam_settings = NoRow
        THEN [op |-> "start", status |-> 404, request |-> data,
              message |-> "Could not retrieve exam settings."]
        ELSE IF attempts_taken >= exam_settings[1].allowed_attempts
        THEN [op |-> "start", status |-> 403, request |-> data,
              message |-> "You have already taken this exam. No more attempts remaining.",
              attempts_taken |-> attempts_taken]
        ELSE IF RealRows(exam_id) = {}
        THEN [op |-> "start", status |-> 404, request |-> data,
              message |-> "This exam has no questions. Please contact your teacher."]
        ELSE EligiblePayload(data, exam_settings, attempts_taken,
                 CHOOSE sd \in FetchOne({st \in students : st.student_id = student_id}) : TRUE,
                 [i \in DOMAIN shuffled |-> ShownQuestion(shuffled[i])],
                 CHOOSE ip \in FetchOne(InProgressOf(student_id, exam_id)) : TRUE)

\* a gate that looks for the questions of the exam before it counts the attempts
Eligibility_QuestionsFirst(data, exam_teacher, exam_settings, shuffled) ==
    LET student_id == data.student_id
        exam_id == data.exam_id
        attempts_taken == CountResults(student_id, exam_id)
    IN  IF exam_teacher = NoRow
        THEN [op |-> "start", status |-> 404, request |-> data,
              message |-> "Exam not found."]
        ELSE IF ~\E st \in students : st.student_id = student_id
                                       /\ st.teacher_id = exam_teacher[1].teacher_id
        THEN [op |-> "start", status |-> 404, request |-> data,
              message |-> "Student ID not found or not associated with this exam."]
        ELSE IF exam_settings = NoRow
        THEN [op |-> "start", status |-> 404, request |-> data,
              message |-> "Could not retrieve exam settings."]
        ELSE IF RealRows(exam_id) = {}
        THEN [op |-> "start", status |-> 404, request |-> data,
              message |-> "This exam has no questions. Please contact your teacher."]
        ELSE IF attempts_taken >= exam_settings[1].allowed_attempts
        THEN [op |-> "start", status |-> 403, request |-> data,
              message |-> "You have already taken this exam. No more attempts remaining.",
              attempts_taken |-> attempts_taken]
        ELSE EligiblePayload(data, exam_settings, attempts_taken,
                 CHOOSE sd \in FetchOne({st \in students : st.student_id = student_id}) : TRUE,
                 [i \in DOMAIN shuffled |-> ShownQuestion(shuffled[i])],
                 CHOOSE ip \in FetchOne(InProgressOf(student_id, exam_id)) : TRUE)

\* lines 420-488: the checks in the order the handler makes them.  exam_teacher and
\* exam_settings are the rows its two LIMIT 1 queries returned, shuffled the real
\* questions as random.shuffle left them
Eligibility(data, exam_teacher, exam_settings, shuffled) ==
    LET student_id == data.student_id
        exam_id == data.exam_id
        attempts_taken == CountResults(student_id, exam_id)
    IN  IF exam_teacher = NoRow
        THEN [op |-> "start", status |-> 404, request |-> data,
              message |-> "Exam not found."]
        ELSE IF ~\E st \in students : st.student_id = student_id
                                       /\ st.teacher_id = exam_teacher[1].teacher_id
        THEN [op |-> "start", status |-> 404, request |-> data,
              message |-> "Student ID not found or not associated with this exam."]
        ELSE IF exam_settings = NoRow
        THEN [op |-> "start", status |-> 404, request |-> data,
              message |-> "Could not retrieve exam settings."]
        ELSE IF attempts_taken >= exam_settings[1].allowed_attempts
        THEN [op |-> "start", status |-> 403, request |-> data,
              message |-> "You have already taken this exam. No more attempts remaining.",
              attempts_taken |-> attempts_taken]
        ELSE IF RealRows(exam_id) = {}
        THEN [op |-> "start", status |-> 404, request |-> data,
              message |-> "This exam has no questions. Please contact your teacher."]
        ELSE EligiblePayload(data, exam_settings, attempts_taken,
                 CHOOSE sd \in FetchOne({st \in students : st.student_id = student_id}) : TRUE,
                 [i \in DOMAIN shuffled |-> ShownQuestion(shuffled[i])],
                 CHOOSE ip \in FetchOne(InProgressOf(student_id, exam_id)) : TRUE)

\* every response the handler can give to a request in the current state
EligibilityResponses(data) ==
    {Eligibility(data, exam_teacher, exam_settings, shuffled) :
        exam_teacher \in FetchOne(ExamRows(data.exam_id)),
        exam_settings \in FetchOne(ExamRows(data.exam_id)),
        shuffled \in Orderings(ShownQuestions(data.exam_id))}

\* a gate that opens the session it admits: it stores a blank in-progress row when
\* the pair has none
check_exam_eligibility_OpensSession(data) ==
    /\ resp' \in EligibilityResponses(data)
    /\ started' = IF resp'.status = 200
                  THEN [request |-> data, questions |-> GradedQuestions(data.exam_id)]
                  ELSE started
    /\ in_progress_exams' =
          IF resp'.status = 200 /\ InProgressOf(data.student_id, data.exam_id) = {}
          THEN in_progress_exams \cup
                 {InProgressRow(data.student_id, data.exam_id, resp'.teacher_id,
                                json_dumps(EmptyMap), resp'.exam_data.time_left,
                                json_dumps(EmptyMap))}
          ELSE in_progress_exams
    /\ UNCHANGED <<students, questions, results, sub, last_save>>

\* the handler: it reads, answers, and writes nothing (no INSERT, no commit)
check_exam_eligibility(data) ==
    /\ resp' \in EligibilityResponses(data)
    /\ started' = IF resp'.status = 200
                  THEN [request |-> data, questions |-> GradedQuestions(data.exam_id)]
                  ELSE started
    /\ UNCHANGED <<students, questions, results, in_progress_exams, sub, last_save>>

\* ------------------------------------------------ POST /api/save-progress

\* a validation that asks of answers and question_status what line 504 asks of
\* time_left: that they are not None
SaveProgressValid_EmptyMapsPass(data) ==
    /\ Has(data, "student_id") /\ data.student_id # ""
    /\ Has(data, "exam_id") /\ data.exam_id # ""
    /\ Has(data, "teacher_id") /\ data.teacher_id # ""
    /\ Has(data, "answers")
    /\ Has(data, "time_left")
    /\ Has(data, "question_status")

\* line 504: not all([student_id, exam_id, teacher_id, answers,
\*                    time_left is not None, question_status])
SaveProgressValid(data) ==
    /\ Has(data, "student_id") /\ data.student_id # ""
    /\ Has(data, "exam_id") /\ data.exam_id # ""
    /\ Has(data, "teacher_id") /\ data.teacher_id # ""
    /\ Has(data, "answers") /\ DOMAIN data.answers # {}
    /\ Has(data, "time_left")
    /\ Has(data, "question_status") /\ DOMAIN data.question_status # {}

\* an upsert that merges the new answers and status into the row it finds
UpsertInProgress_Merge(table, data) ==
    LET old == {r \in table : r.student_id = data.student_id /\ r.exam_id = data.exam_id}
        base(col) == IF old = {} THEN EmptyMap
                     ELSE json_loads((CHOOSE r \in old : TRUE)[col])
        merged(col) == [k \in DOMAIN base(col) \cup DOMAIN data[col] |->
                          IF k \in DOMAIN data[col] THEN data[col][k] ELSE base(col)[k]]
    IN  (table \ old)
        \cup {InProgressRow(data.student_id, data.exam_id, data.teacher_id,
                            json_dumps(merged("answers")), data.time_left,
                            json_dumps(merged("question_status")))}

\* the same upsert on a table whose primary key is student_id alone
UpsertInProgress_ByStudent(table, data) ==
    {r \in table : r.student_id # data.student_id}
        \cup {InProgressRow(data.student_id, data.exam_id, data.teacher_id,
                            json_dumps(data.answers), data.time_left,
                            json_dumps(data.question_status))}

\* lines 510-513: INSERT OR REPLACE INTO in_progress_exams, whose primary key is
\* (student_id, exam_id)
UpsertInProgress(table, data) ==
    {r \in table : ~(r.student_id = data.student_id /\ r.exam_id = data.exam_id)}
        \cup {InProgressRow(data.student_id, data.exam_id, data.teacher_id,
                            json_dumps(data.answers), data.time_left,
                            json_dumps(data.question_status))}

\* the history of the pair after a save that returned 200
RecordSave(data) ==
    {h \in last_save : ~(h.student_id = data.student_id /\ h.exam_id = data.exam_id)}
        \cup {[student_id |-> data.student_id, exam_id |-> data.exam_id,
               answers |-> data.answers, question_status |-> data.question_status,
               time_left |-> data.time_left]}

\* a handler that takes a body it cannot store as the end of the session: it
\* answers 400 and drops the row of the pair it can still name
save_progress_DropsOnInvalid(data, storage_fails) ==
    /\ IF ~SaveProgressValid(data)
       THEN /\ resp' = [op |-> "save", status |-> 400, request |-> data,
                        message |-> "Invalid data"]
            /\ in_progress_exams' =
                   {r \in in_progress_exams :
                       ~(r.student_id = dict_get(data, "student_id")
                         /\ r.exam_id = dict_get(data, "exam_id"))}
            /\ last_save' = last_save
       ELSE IF storage_fails
       THEN /\ resp' = [op |-> "save", status |-> 500, request |-> data,
                        message |-> "An error occurred"]
            /\ UNCHANGED <<in_progress_exams, last_save>>
       ELSE /\ in_progress_exams' = UpsertInProgress(in_progress_exams, data)
            /\ last_save' = RecordSave(data)
            /\ resp' = [op |-> "save", status |-> 200, request |-> data,
                        message |-> "Progress saved successfully."]
    /\ UNCHANGED <<students, questions, results, sub, started>>

\* a handler that gives way to a submit in flight for the same pair: it
\* acknowledges the snapshot and stores nothing
save_progress_YieldsToSubmit(data, storage_fails) ==
    /\ IF ~SaveProgressValid(data)
       THEN /\ resp' = [op |-> "save", status |-> 400, request |-> data,
                        message |-> "Invalid data"]
            /\ UNCHANGED <<in_progress_exams, last_save>>
       ELSE IF storage_fails
       THEN /\ resp' = [op |-> "save", status |-> 500, request |-> data,
                        message |-> "An error occurred"]
            /\ UNCHANGED <<in_progress_exams, last_save>>
       ELSE /\ IF sub.pc = "finalize" /\ sub.request.student_id = data.student_id
                  /\ sub.request.exam_id = data.exam_id
               THEN UNCHANGED <<in_progress_exams, last_save>>
               ELSE /\ in_progress_exams' = UpsertInProgress(in_progress_exams, data)
                    /\ last_save' = RecordSave(data)
            /\ resp' = [op |-> "save", status |-> 200, request |-> data,
                        message |-> "Progress saved successfully."]
    /\ UNCHANGED <<students, questions, results, sub, started>>

\* the handler; storage_fails is an exception raised by execute or commit, after
\* which close() drops what was not committed
save_progress(data, storage_fails) ==
    /\ IF ~SaveProgressValid(data)
       THEN /\ resp' = [op |-> "save", status |-> 400, request |-> data,
                        message |-> "Invalid data"]
            /\ UNCHANGED <<in_progress_exams, last_save>>
       ELSE IF storage_fails
       THEN /\ resp' = [op |-> "save", status |-> 500, request |-> data,
                        message |-> "An error occurred"]
            /\ UNCHANGED <<in_progress_exams, last_save>>
       ELSE /\ in_progress_exams' = UpsertInProgress(in_progress_exams, data)
            /\ last_save' = RecordSave(data)
            /\ resp' = [op |-> "save", status |-> 200, request |-> data,
                        message |-> "Progress saved successfully."]
    /\ UNCHANGED <<students, questions, results, sub, started>>

\* ------------------------------------------------ POST /api/submit/exam

\* line 572: question_text -> correct_option of the rows read
correct_answers_map(all_questions) ==
    [t \in {all_questions[i].question_text : i \in DOMAIN all_questions} |->
        (CHOOSE c \in {all_questions[i].correct_option : i \in DOMAIN all_questions} :
            \E i \in DOMAIN all_questions :
                /\ all_questions[i].question_text = t
                /\ all_questions[i].correct_option = c
                /\ \A j \in DOMAIN all_questions :
                       all_questions[j].question_text = t => j <= i)]

\* a pass that takes any answer given for a question of the exam as correct
AnalysisRecord_AnsweredIsCorrect(question, answers, cmap) ==
    LET q_text == question.question_text
        student_answer_key == dict_get(answers, q_text)
        correct_answer_key == dict_get(cmap, q_text)
    IN  [question_text |-> q_text, options |-> json_loads(question.options),
         student_answer |-> student_answer_key, correct_answer |-> correct_answer_key,
         is_correct |-> (student_answer_key # None)]

\* lines 578-588: one pass of the grading loop
AnalysisRecord(question, answers, cmap) ==
    LET q_text == question.question_text
        student_answer_key == dict_get(answers, q_text)
        correct_answer_key == dict_get(cmap, q_text)
    IN  [question_text |-> q_text, options |-> json_loads(question.options),
         student_answer |-> student_answer_key, correct_answer |-> correct_answer_key,
         is_correct |-> (student_answer_key = correct_answer_key)]

\* a loop that reports only the questions the student answered
RECURSIVE GradeLoop_AnsweredOnly(_, _, _, _, _)
GradeLoop_AnsweredOnly(all_questions, i, answers, cmap, acc) ==
    IF i > Len(all_questions) THEN acc
    ELSE LET rec == AnalysisRecord(all_questions[i], answers, cmap)
         IN  GradeLoop_AnsweredOnly(all_questions, i + 1, answers, cmap,
                 [score |-> acc.score + (IF rec.is_correct THEN 1 ELSE 0),
                  analysis_report |-> IF rec.student_answer = None
                                      THEN acc.analysis_report
                                      ELSE Append(acc.analysis_report, rec)])

\* lines 574-588: the loop from question i on, acc the score and report so far
RECURSIVE GradeLoop(_, _, _, _, _)
GradeLoop(all_questions, i, answers, cmap, acc) ==
    IF i > Len(all_questions) THEN acc
    ELSE LET rec == AnalysisRecord(all_questions[i], answers, cmap)
         IN  GradeLoop(all_questions, i + 1, answers, cmap,
                 [score |-> acc.score + (IF rec.is_correct THEN 1 ELSE 0),
                  analysis_report |-> Append(acc.analysis_report, rec)])

Grade(all_questions, answers) ==
    GradeLoop(all_questions, 1, answers, correct_answers_map(all_questions),
              [score |-> 0, analysis_report |-> <<>>])

Idle == [pc |-> "idle"]

\* a handler that holds the submit to the attempts allowed: it answers 403 when
\* the Results of the pair have reached the allowed_attempts of the settings row
submit_exam_grade_ChecksAttempts(data, all_questions) ==
    /\ sub = Idle
    /\ Len(results) < MaxResults
    /\ IF all_questions = <<>>
       THEN /\ resp' = [op |-> "submit", status |-> 500, request |-> data,
                        message |-> "Could not find questions for this exam to calculate score."]
            /\ sub' = sub
       ELSE IF ~Has(data, "answers")
       THEN /\ resp' = [op |-> "submit", status |-> 500, request |-> data,
                        message |-> "An error occurred during submission"]
            /\ sub' = sub
       ELSE IF \E q \in ExamRows(data.exam_id) :
                  /\ q.question_text = Placeholder
                  /\ CountResults(data.student_id, data.exam_id) >= q.allowed_attempts
       THEN /\ resp' = [op |-> "submit", status |-> 403, request |-> data,
                        message |-> "No more attempts remaining."]
            /\ sub' = sub
       ELSE /\ sub' = [pc |-> "finalize", request |-> data, all_questions |-> all_questions,
                       graded |-> Grade(all_questions, data.answers)]
            /\ resp' = resp
    /\ UNCHANGED <<students, questions, results, in_progress_exams, last_save, started>>

\* a handler without the check of lines 569-570: an exam without questions is
\* graded, with score 0
submit_exam_grade_EmptyExamScoresZero(data, all_questions) ==
    /\ sub = Idle
    /\ Len(results) < MaxResults
    /\ IF ~Has(data, "answers")
       THEN /\ resp' = [op |-> "submit", status |-> 500, request |-> data,
                        message |-> "An error occurred during submission"]
            /\ sub' = sub
       ELSE /\ sub' = [pc |-> "finalize", request |-> data, all_questions |-> all_questions,
                       graded |-> Grade(all_questions, data.answers)]
            /\ resp' = resp
    /\ UNCHANGED <<students, questions, results, in_progress_exams, last_save, started>>

\* lines 556-588: the SELECT of the real questions and the grading.  all_questions is
\* the rows in the order the SELECT returned them
submit_exam_grade(data, all_questions) ==
    /\ sub = Idle
    /\ Len(results) < MaxResults
    /\ IF all_questions = <<>>
       THEN /\ resp' = [op |-> "submit", status |-> 500, request |-> data,
                        message |-> "Could not find questions for this exam to calculate score."]
            /\ sub' = sub
       ELSE IF ~Has(data, "answers")
       THEN \* answers is None: answers.get raises, the except clause answers
            /\ resp' = [op |-> "submit", status |-> 500, request |-> data,
                        message |-> "An error occurred during submission"]
            /\ sub' = sub
       ELSE /\ sub' = [pc |-> "finalize", request |-> data, all_questions |-> all_questions,
                       graded |-> Grade(all_questions, data.answers)]
            /\ resp' = resp
    /\ UNCHANGED <<students, questions, results, in_progress_exams, last_save, started>>

\* lines 590-592: the row uuid4 and the request give
NewResult(data, score) ==
    ResultRow(Len(results) + 1, data.exam_id, data.student_id, data.student_name,
              data.teacher_id, score, json_dumps(data.answers))

\* a DELETE that matches no row
DeleteInProgress_NoRow(table, data) == table

\* the same DELETE without its student_id = ?: the rows of the whole exam go
DeleteInProgress_WholeExam(table, data) ==
    {r \in table : r.exam_id # data.exam_id}

\* line 594: DELETE FROM in_progress_exams WHERE student_id = ? AND exam_id = ?
DeleteInProgress(table, data) ==
    {r \in table : ~(r.student_id = data.student_id /\ r.exam_id = data.exam_id)}

\* a transaction that keeps one Result per (student_id, exam_id): the INSERT
\* replaces the row the pair has
SubmitTransaction_OnePerPair(data, score, failure) ==
    LET Others(r) == ~(r.student_id = data.student_id /\ r.exam_id = data.exam_id)
    IN  IF failure = "none"
        THEN [results |-> Append(SelectSeq(results, Others), NewResult(data, score)),
              in_progress_exams |-> DeleteInProgress(in_progress_exams, data),
              committed |-> TRUE]
        ELSE [results |-> results, in_progress_exams |-> in_progress_exams,
              committed |-> FALSE]

\* the same statements on a connection in autocommit mode: each statement that
\* ran stays applied when a later one raises
SubmitTransaction_Autocommit(data, score, failure) ==
    [results |-> IF failure = "insert" THEN results
                 ELSE Append(results, NewResult(data, score)),
     in_progress_exams |-> IF failure \in {"insert", "delete"} THEN in_progress_exams
                           ELSE DeleteInProgress(in_progress_exams, data),
     committed |-> failure # "insert"]

\* lines 590-606: the tables after the handler's INSERT, DELETE and commit, where
\* failure names the statement that raised ("insert", "delete", "commit") or is
\* "none".  Nothing is committed before line 596, and close() after an exception
\* rolls back what the statements before it wrote
SubmitTransaction(data, score, failure) ==
    IF failure = "none"
    THEN [results |-> Append(results, NewResult(data, score)),
          in_progress_exams |-> DeleteInProgress(in_progress_exams, data),
          committed |-> TRUE]
    ELSE [results |-> results, in_progress_exams |-> in_progress_exams,
          committed |-> FALSE]

\* the history of the pair after its Result was committed
ForgetSave(data) ==
    {h \in last_save : ~(h.student_id = data.student_id /\ h.exam_id = data.exam_id)}

submit_exam_finalize(failure) ==
    /\ sub.pc = "finalize"
    /\ LET data == sub.request
           tx == SubmitTransaction(data, sub.graded.score, failure)
       IN  /\ results' = tx.results
           /\ in_progress_exams' = tx.in_progress_exams
           /\ last_save' = IF tx.committed THEN ForgetSave(data) ELSE last_save
           /\ resp' = IF failure = "none"
                      THEN [op |-> "submit", status |-> 200, request |-> data,
                            message |-> "Exam submitted successfully.",
                            score |-> sub.graded.score,
                            analysis_report |-> sub.graded.analysis_report,
                            all_questions |-> sub.all_questions]
                      ELSE [op |-> "submit", status |-> 500, request |-> data,
                            message |-> "An error occurred during submission"]
    /\ sub' = Idle
    /\ UNCHANGED <<students, questions, started>>

\* ------------------------------------------------ POST /api/exams/settings

\* line 382: all fields are required (0 counts as missing)
SettingsValid(data) ==
    /\ Has(data, "teacher_id") /\ data.teacher_id # ""
    /\ Has(data, "exam_id") /\ data.exam_id # ""
    /\ Has(data, "duration") /\ data.duration # 0
    /\ Has(data, "attempts") /\ data.attempts # 0

\* line 380 and lines 394, 399: data.get('enable_analysis_report', False) as 1 or 0
AnalysisFlag(data) ==
    IF Has(data, "enable_analysis_report") /\ data.enable_analysis_report THEN 1 ELSE 0

\* lines 389-401: UPDATE of the settings row of (exam_id, teacher_id), or its INSERT
\* with question_text 'placeholder', correct_option 'A' and options '{}'.  Only the
\* settings row is written: the rows of the questions keep the settings they have
save_exam_settings(data) ==
    /\ IF ~SettingsValid(data)
       THEN /\ resp' = [op |-> "settings", status |-> 400, request |-> data]
            /\ questions' = questions
       ELSE IF SettingsRows(data.exam_id, data.teacher_id) # {}
       THEN /\ questions' =
                  {IF q \in SettingsRows(data.exam_id, data.teacher_id)
                   THEN [q EXCEPT !.duration = data.duration,
                                  !.allowed_attempts = data.attempts,
                                  !.enable_analysis_report = AnalysisFlag(data)]
                   ELSE q : q \in questions}
            /\ resp' = [op |-> "settings", status |-> 200, request |-> data]
       ELSE IF \E q \in questions : q.exam_id = data.exam_id
                                     /\ q.question_text = Placeholder
       THEN \* the INSERT breaks the primary key: IntegrityError, answered by except
            /\ resp' = [op |-> "settings", status |-> 500, request |-> data]
            /\ questions' = questions
       ELSE /\ questions' = questions \cup
                  {QuestionRow(data.exam_id, data.teacher_id, Placeholder, "A",
                               json_dumps(EmptyMap), data.duration, data.attempts,
                               AnalysisFlag(data))}
            /\ resp' = [op |-> "settings", status |-> 200, request |-> data]
    /\ UNCHANGED <<students, results, in_progress_exams, sub, last_save, started>>

\* ------------------------------------------------ POST /api/questions/single-upload

\* line 341
UploadValid(data) ==
    /\ Has(data, "teacher_id") /\ data.teacher_id # ""
    /\ Has(data, "exam_id") /\ data.exam_id # ""
    /\ Has(data, "question_text") /\ data.question_text # ""
    /\ Has(data, "correct_option") /\ data.correct_option # ""
    /\ Has(data, "options") /\ DOMAIN data.options # {}

\* lines 353-360: the table after the DELETE of a renamed question and the INSERT OR
\* REPLACE of the question, which copies the settings of the settings row
UploadedQuestions(data, exam_settings) ==
    LET kept == IF Has(data, "original_question_text")
                   /\ data.original_question_text # ""
                   /\ data.original_question_text # data.question_text
                THEN {q \in questions : ~(q.teacher_id = data.teacher_id
                                          /\ q.exam_id = data.exam_id
                                          /\ q.question_text = data.original_question_text)}
                ELSE questions
    IN  ReplaceQuestion(kept,
            QuestionRow(data.exam_id, data.teacher_id, data.question_text,
                        data.correct_option, json_dumps(data.options),
                        exam_settings.duration, exam_settings.allowed_attempts,
                        exam_settings.enable_analysis_report))

single_upload_question(data) ==
    /\ IF ~UploadValid(data)
       THEN /\ resp' = [op |-> "upload", status |-> 400, request |-> data]
            /\ questions' = questions
       ELSE IF SettingsRows(data.exam_id, data.teacher_id) = {}
       THEN /\ resp' = [op |-> "upload", status |-> 404, request |-> data]
            /\ questions' = questions
       ELSE /\ \E exam_settings \in SettingsRows(data.exam_id, data.teacher_id) :
                   questions' = UploadedQuestions(data, exam_settings)
            /\ resp' = [op |-> "upload", status |-> 200, request |-> data]
    /\ UNCHANGED <<students, results, in_progress_exams, sub, last_save, started>>

\* ------------------------------------------------ DELETE /api/question/delete

\* lines 634-645: any row of the teacher's exam with that question_text goes,
\* the settings row too when 'placeholder' is asked for
delete_question(data) ==
    LET hit == {q \in questions : q.teacher_id = data.teacher_id
                                  /\ q.exam_id = data.exam_id
                                  /\ q.question_text = data.question_text}
    IN  /\ questions' = questions \ hit
        /\ resp' = [op |-> "delete", status |-> IF hit # {} THEN 200 ELSE 404,
                    request |-> data]
        /\ UNCHANGED <<students, results, in_progress_exams, sub, last_save, started>>

\* ------------------------------------------------ the requests of the model

Options == [A |-> "first", B |-> "second"]

StartRequests ==
    {[student_id |-> s, exam_id |-> "e1"] : s \in {"s1", "s2", "s9"}}

SettingsRequests ==
    {[teacher_id |-> "t1", exam_id |-> "e1", duration |-> 1, attempts |-> 1,
      enable_analysis_report |-> FALSE],
     [teacher_id |-> "t1", exam_id |-> "e1", duration |-> 2, attempts |-> 2,
      enable_analysis_report |-> TRUE]}

UploadRequests ==
    {[teacher_id |-> "t1", exam_id |-> "e1", question_text |-> "Q1",
      correct_option |-> "A", options |-> Options]}

DeleteRequests ==
    {[teacher_id |-> "t1", exam_id |-> "e1", question_text |-> t] :
        t \in {"Q1", Placeholder}}

SnapshotA ==
    [answers |-> [Q1 |-> "A", Q2 |-> "B"],
     question_status |-> [Q1 |-> "answered", Q2 |-> "flagged"], time_left |-> 30]
SnapshotB ==
    [answers |-> [Q1 |-> "B"], question_status |-> [Q1 |-> "answered"], time_left |-> 0]

SaveRequest(student_id, teacher_id, snap) ==
    [student_id |-> student_id, exam_id |-> "e1", teacher_id |-> teacher_id,
     answers |-> snap.answers, question_status |-> snap.question_status,
     time_left |-> snap.time_left]

\* a request body without one of its keys: data.get of that key gives None
Without(data, f) == [k \in DOMAIN data \ {f} |-> data[k]]

SaveFields == {"student_id", "exam_id", "teacher_id", "answers", "time_left", "question_status"}

SaveRequests ==
    {SaveRequest("s1", "t1", SnapshotA), SaveRequest("s1", "t1", SnapshotB),
     SaveRequest("s2", "t2", SnapshotA),
     [SaveRequest("s1", "t1", SnapshotA) EXCEPT !.answers = EmptyMap],
     [SaveRequest("s1", "t1", SnapshotA) EXCEPT !.question_status = EmptyMap]}
    \cup {Without(SaveRequest("s1", "t1", SnapshotA), f) : f \in SaveFields}

SubmitRequests ==
    {[exam_id |-> "e1", student_id |-> "s1", student_name |-> "n1", teacher_id |-> "t1",
      answers |-> [Q1 |-> "A", Q2 |-> "C"]],
     [exam_id |-> "e1", student_id |-> "s2", student_name |-> "n2", teacher_id |-> "t2",
      answers |-> [Q1 |-> "A", Q2 |-> "C"]],
     [exam_id |-> "e1", student_id |-> "s1", student_name |-> "n1", teacher_id |-> "t1"]}

Failures == {"none", "insert", "delete", "commit"}

\* ------------------------------------------------ the specification

\* an empty database but for the roster: student s1 of teacher t1, who authors exam
\* e1, and student s2 of teacher t2 (rows of create_single_student)
Init ==
    /\ students = {StudentRow("s1", "t1", "n1"), StudentRow("s2", "t2", "n2")}
    /\ questions = {}
    /\ results = <<>>
    /\ in_progress_exams = {}
    /\ sub = Idle
    /\ resp = [op |-> "none", status |-> 0]
    /\ last_save = {}
    /\ started = [request |-> [student_id |-> None, exam_id |-> None], questions |-> {}]

StartSession == \E data \in StartRequests : check_exam_eligibility(data)
SaveProgress == \E data \in SaveRequests, storage_fails \in BOOLEAN : save_progress(data, storage_fails)
SubmitGrade == \E data \in SubmitRequests : \E all_questions \in Orderings(GradedQuestions(data.exam_id)) : submit_exam_grade(data, all_questions)
SubmitFinalize == \E failure \in Failures : submit_exam_finalize(failure)
SaveSettings == \E data \in SettingsRequests : save_exam_settings(data)
UploadQuestion == \E data \in UploadRequests : single_upload_question(data)
DeleteQuestion == \E data \in DeleteRequests : delete_question(data)

Next ==
    \/ StartSession
    \/ SaveProgress
    \/ SubmitGrade
    \/ SubmitFinalize
    \/ SaveSettings
    \/ UploadQuestion
    \/ DeleteQuestion

Spec == Init /\ [][Next]_vars

\* ------------------------------------------------ the grading specification

\* The same handlers, with one student and a question bank that changes under
\* the submissions: two questions, the correct option of the first edited, answers
\* that match, miss, leave a question out and name a question the exam has not

GradeSettingsRequests ==
    {[teacher_id |-> "t1", exam_id |-> "e1", duration |-> 1, attempts |-> 2,
      enable_analysis_report |-> flag] : flag \in BOOLEAN}

GradeUploadRequests ==
    {[teacher_id |-> "t1", exam_id |-> "e1", question_text |-> "Q1",
      correct_option |-> c, options |-> Options] : c \in {"A", "B"}} \cup
    {[teacher_id |-> "t1", exam_id |-> "e1", question_text |-> "Q2",
      correct_option |-> "B", options |-> Options]}

GradeDeleteRequests ==
    {[teacher_id |-> "t1", exam_id |-> "e1", question_text |-> "Q2"]}

GradeStartRequests == {[student_id |-> "s1", exam_id |-> "e1"]}

GradeAnswers ==
    {[Q1 |-> "A", Q2 |-> "B"], [Q2 |-> "B", Q9 |-> "A"]}

GradeSubmitRequests ==
    {[exam_id |-> "e1", student_id |-> "s1", student_name |-> "n1", teacher_id |-> "t1",
      answers |-> a] : a \in GradeAnswers}

GradeStartSession == \E data \in GradeStartRequests : check_exam_eligibility(data)
\* a submit that grades against the questions as they were when the session started
GradeSubmitGrade_AtStart == \E data \in GradeSubmitRequests : \E all_questions \in Orderings(started.questions) : submit_exam_grade(data, all_questions)
GradeSubmitGrade == \E data \in GradeSubmitRequests : \E all_questions \in Orderings(GradedQuestions(data.exam_id)) : submit_exam_grade(data, all_questions)
GradeSaveSettings == \E data \in GradeSettingsRequests : save_exam_settings(data)
GradeUploadQuestion == \E data \in GradeUploadRequests : single_upload_question(data)
GradeDeleteQuestion == \E data \in GradeDeleteRequests : delete_question(data)

NextGrade ==
    \/ GradeStartSession
    \/ GradeSubmitGrade
    \/ SubmitFinalize
    \/ GradeSaveSettings
    \/ GradeUploadQuestion
    \/ GradeDeleteQuestion

SpecGrade == Init /\ [][NextGrade]_vars

\* ------------------------------------------------ the specification of pairs

\* The same handlers with two exams of teacher t1, each with one question, and
\* the saves and submits of three pairs: (s1, e1), (s1, e2) and (s2, e1)

PairSettingsRequests ==
    {[teacher_id |-> "t1", exam_id |-> e, duration |-> 1, attempts |-> 2,
      enable_analysis_report |-> FALSE] : e \in {"e1", "e2"}}

PairUploadRequests ==
    {[teacher_id |-> "t1", exam_id |-> e, question_text |-> "Q1",
      correct_option |-> "A", options |-> Options] : e \in {"e1", "e2"}}

PairSaveRequests ==
    {SaveRequest("s1", "t1", SnapshotA),
     [SaveRequest("s1", "t1", SnapshotB) EXCEPT !.exam_id = "e2"],
     SaveRequest("s2", "t2", SnapshotB)}

PairSubmitRequests ==
    {[exam_id |-> "e1", student_id |-> "s1", student_name |-> "n1", teacher_id |-> "t1",
      answers |-> [Q1 |-> "A"]],
     [exam_id |-> "e2", student_id |-> "s1", student_name |-> "n1", teacher_id |-> "t1",
      answers |-> [Q1 |-> "B"]],
     [exam_id |-> "e1", student_id |-> "s2", student_name |-> "n2", teacher_id |-> "t2",
      answers |-> [Q1 |-> "A"]]}

PairSaveSettings == \E data \in PairSettingsRequests : save_exam_settings(data)
PairUploadQuestion == \E data \in PairUploadRequests : single_upload_question(data)
PairSaveProgress == \E data \in PairSaveRequests, storage_fails \in BOOLEAN : save_progress(data, storage_fails)
PairSubmitGrade == \E data \in PairSubmitRequests : \E all_questions \in Orderings(GradedQuestions(data.exam_id)) : submit_exam_grade(data, all_questions)

NextPairs ==
    \/ PairSaveSettings
    \/ PairUploadQuestion
    \/ PairSaveProgress
    \/ PairSubmitGrade
    \/ SubmitFinalize

SpecPairs == Init /\ [][NextPairs]_vars

\* ------------------------------------------------ properties

\* the settings row of an exam (its ExamSpec), and whether a student is on the
\* roster of the teacher who owns it
ExamSpecs(exam_id) == {q \in questions : q.exam_id = exam_id /\ q.question_text = Placeholder}
OwnedBy(student_id, exam_id) ==
    \E spec \in ExamSpecs(exam_id) : \E st \in students :
        st.student_id = student_id /\ st.teacher_id = spec.teacher_id
StudentIds == {"s1", "s2"}
ExamIds == {"e1"}
Pairs == StudentIds \X ExamIds

\* C1: in every reachable state the number of Result rows of each (student_id,
\* exam_id) is at most the allowed_attempts of the exam's settings
C1_AttemptsWithinAllowed ==
    \A p \in Pairs : \A spec \in ExamSpecs(p[2]) :
        CountResults(p[1], p[2]) <= spec.allowed_attempts

\* C2: when the Results of (student, exam) number at least the exam's
\* allowed_attempts and the student is on the roster of the exam's teacher, the
\* response of check_exam_eligibility is 403 and carries attempts_taken
C2_ForbiddenWhenExhausted ==
    (/\ resp.op = "start"
     /\ OwnedBy(resp.request.student_id, resp.request.exam_id)
     /\ \E spec \in ExamSpecs(resp.request.exam_id) :
            CountResults(resp.request.student_id, resp.request.exam_id)
                >= spec.allowed_attempts)
    => /\ resp.status = 403
       /\ resp.attempts_taken
              = CountResults(resp.request.student_id, resp.request.exam_id)

\* a step that is the transaction of a submit_exam request, and one that commits
FinalizeStep == sub.pc = "finalize" /\ sub'.pc = "idle"
CommitStep == FinalizeStep /\ resp'.status = 200

\* the attempts a response of check_exam_eligibility shows to have been taken
AttemptsSeen(r) ==
    IF r.status = 200 THEN r.exam_data.attempt_number - 1 ELSE r.attempts_taken

\* C3: a submit_exam that returns 200 adds exactly one row to results, leaves no
\* in_progress_exams row of its (student_id, exam_id), and every response a
\* check_exam_eligibility for the pair then gives that shows attempts_taken shows
\* one more than the pair had before the submit
C3_SubmitAddsOneResult ==
    [][\A s \in StudentIds, e \in ExamIds :
          (CommitStep /\ sub.request.student_id = s /\ sub.request.exam_id = e) =>
            /\ Len(results') = Len(results) + 1
            /\ SubSeq(results', 1, Len(results)) = results
            /\ results'[Len(results')].student_id = s
            /\ results'[Len(results')].exam_id = e
            /\ (InProgressOf(s, e))' = {}
            /\ (CountResults(s, e))' = CountResults(s, e) + 1
            /\ \A r \in (EligibilityResponses([student_id |-> s, exam_id |-> e]))' :
                   r.status \in {200, 403} => AttemptsSeen(r) = CountResults(s, e) + 1
      ]_vars

\* a submit for s1 that had a saved session committed, while s2's session stays;
\* the start that follows shows the attempt
C3_Witness ==
    /\ resp.op = "start" /\ resp.status = 403 /\ resp.attempts_taken = 1
    /\ resp.request.student_id = "s1"
    /\ CountResults("s1", "e1") = 1
    /\ InProgressOf("s1", "e1") = {}
    /\ InProgressOf("s2", "e1") # {}

\* C4: the transaction of submit_exam either commits both the new Result and the
\* removal of the pair's in_progress_exams row and returns 200, or, when a
\* statement or the commit fails, leaves results and in_progress_exams as they
\* were and returns 500
C4_SubmitAllOrNothing ==
    [][FinalizeStep =>
        \/ /\ resp'.status = 200
           /\ results' = Append(results, NewResult(sub.request, sub.graded.score))
           /\ in_progress_exams' =
                  {r \in in_progress_exams :
                      ~(r.student_id = sub.request.student_id
                        /\ r.exam_id = sub.request.exam_id)}
        \/ /\ resp'.status = 500
           /\ results' = results
           /\ in_progress_exams' = in_progress_exams
      ]_vars

\* a submit whose transaction failed: 500, no Result, the saved session still there
C4_Witness ==
    /\ resp.op = "submit" /\ resp.status = 500
    /\ Has(resp.request, "answers")
    /\ RealRows(resp.request.exam_id) # {}
    /\ sub = Idle
    /\ results = <<>>
    /\ InProgressOf(resp.request.student_id, resp.request.exam_id) # {}

\* the history of a pair: the body of its last save that returned 200
LastSaveOf(student_id, exam_id) ==
    {h \in last_save : h.student_id = student_id /\ h.exam_id = exam_id}

\* C5: a check_exam_eligibility that returns its payload for a pair with an
\* in_progress_exams row returns the answers, question_status and time_left of the
\* pair's last successful save_progress: not empty maps, not duration * 60
C5_ResumeReturnsLastSave ==
    (/\ resp.op = "start" /\ resp.status = 200
     /\ InProgressOf(resp.request.student_id, resp.request.exam_id) # {})
    => /\ LastSaveOf(resp.request.student_id, resp.request.exam_id) # {}
       /\ \A h \in LastSaveOf(resp.request.student_id, resp.request.exam_id) :
              /\ resp.exam_data.answers = h.answers
              /\ resp.exam_data.question_status = h.question_status
              /\ resp.exam_data.time_left = h.time_left
       /\ resp.exam_data.answers # EmptyMap
       /\ resp.exam_data.question_status # EmptyMap

\* s1 saved time_left = 0 with one answer, and a start resumes exactly that
C5_Witness ==
    /\ resp.op = "start" /\ resp.status = 200 /\ resp.request.student_id = "s1"
    /\ resp.exam_data.time_left = 0
    /\ resp.exam_data.answers = [Q1 |-> "B"]
    /\ LastSaveOf("s1", "e1") # {}
    /\ CountResults("s1", "e1") = 1

\* C9: a step of check_exam_eligibility, whatever it answers, leaves the question
\* bank, the roster, the results and the in-progress table as they were
C9_StartSessionReadsOnly ==
    [][(resp'.op = "start" /\ sub' = sub) =>
          /\ questions' = questions
          /\ students' = students
          /\ results' = results
          /\ in_progress_exams' = in_progress_exams
      ]_vars

\* a start that was admitted for a pair with no saved session, and still none after
C9_Witness ==
    /\ resp.op = "start" /\ resp.status = 200
    /\ InProgressOf(resp.request.student_id, resp.request.exam_id) = {}
    /\ resp.exam_data.attempt_number = 2
    /\ Len(results) = 1

\* C10: in_progress_exams holds at most one row per (student_id, exam_id), and
\* the row holds exactly the answers, question_status and time_left of the pair's
\* last successful save_progress, with nothing of an earlier snapshot merged in
C10_UpsertReplaces ==
    /\ \A r1, r2 \in in_progress_exams :
           (r1.student_id = r2.student_id /\ r1.exam_id = r2.exam_id) => r1 = r2
    /\ \A r \in in_progress_exams :
           /\ LastSaveOf(r.student_id, r.exam_id) # {}
           /\ \A h \in LastSaveOf(r.student_id, r.exam_id) :
                  /\ json_loads(r.answers) = h.answers
                  /\ json_loads(r.question_status) = h.question_status
                  /\ r.time_left = h.time_left
    /\ (resp.op = "save" /\ resp.status = 200) =>
           \E r \in in_progress_exams :
               /\ r.student_id = resp.request.student_id
               /\ r.exam_id = resp.request.exam_id
               /\ json_loads(r.answers) = resp.request.answers
               /\ json_loads(r.question_status) = resp.request.question_status
               /\ r.time_left = resp.request.time_left

\* the smaller snapshot B was saved for s1 and is all its row holds, beside s2's row
C10_Witness ==
    /\ resp.op = "save" /\ resp.status = 200
    /\ resp.request.student_id = "s1" /\ resp.request.answers = [Q1 |-> "B"]
    /\ \E r \in in_progress_exams :
           r.student_id = "s1" /\ json_loads(r.answers) = [Q1 |-> "B"] /\ r.time_left = 0
    /\ Cardinality(in_progress_exams) = 2

\* a step in which submit_exam read the questions and graded
GradeStep == sub.pc = "idle" /\ sub'.pc = "finalize"

\* the questions of a set that an answers map answers with their correct option
CorrectlyAnswered(qs, answers) ==
    {q \in qs : q.question_text \in DOMAIN answers
                /\ answers[q.question_text] = q.correct_option}

\* C6: the score submit_exam computes, returns and stores is the number of real
\* questions of the exam whose correct option the answers map gives; a question
\* without an entry and an entry without a question add nothing, and the request
\* fails at grading only when the exam has no real question or answers is absent
C6_ScoreCountsMatches ==
    [][/\ GradeStep =>
            sub'.graded.score =
                Cardinality(CorrectlyAnswered(GradedQuestions(sub'.request.exam_id),
                                              sub'.request.answers))
       /\ CommitStep =>
            /\ resp'.score = sub.graded.score
            /\ results'[Len(results')].score = sub.graded.score
            /\ json_loads(results'[Len(results')].answers) = sub.request.answers
       /\ (sub = Idle /\ sub' = Idle /\ resp'.op = "submit") =>
            /\ resp'.status = 500
            /\ \/ RealRows(resp'.request.exam_id) = {}
               \/ ~Has(resp'.request, "answers")
      ]_vars

\* Q1 answered right, Q2 left out and an unknown Q9 answered: score 1 of 2, while
\* an earlier result scored both
C6_Witness ==
    /\ resp.op = "submit" /\ resp.status = 200
    /\ resp.request.answers = [Q2 |-> "B", Q9 |-> "A"]
    /\ Len(resp.all_questions) = 2
    /\ resp.score = 1
    /\ Len(results) = 2 /\ results[1].score = 2 /\ results[2].score = 1

\* C7: the analysis_report has one record per real question of the exam as read
\* at submission, in the order of that list, as many records with is_correct as the
\* score, and is returned as graded whatever enable_analysis_report is
C7_ReportFollowsQuestionList ==
    [][/\ GradeStep =>
            LET report == sub'.graded.analysis_report
                listed == sub'.all_questions
            IN  /\ Len(report) = Cardinality(RealRows(sub'.request.exam_id))
                /\ {listed[i] : i \in DOMAIN listed}
                       = GradedQuestions(sub'.request.exam_id)
                /\ \A i \in DOMAIN report :
                       /\ report[i].question_text = listed[i].question_text
                       /\ report[i].correct_answer = listed[i].correct_option
                       /\ report[i].student_answer
                              = dict_get(sub'.request.answers, listed[i].question_text)
                /\ \A i, j \in DOMAIN report :
                       i # j => report[i].question_text # report[j].question_text
                /\ Cardinality({i \in DOMAIN report : report[i].is_correct})
                       = sub'.graded.score
       /\ CommitStep =>
            /\ resp'.analysis_report = sub.graded.analysis_report
            /\ resp'.score = sub.graded.score
      ]_vars

\* a report of two records, Q2 before Q1, one of them correct, returned for an exam
\* whose rows all have enable_analysis_report = 0
C7_Witness ==
    /\ resp.op = "submit" /\ resp.status = 200
    /\ Len(resp.analysis_report) = 2
    /\ resp.analysis_report[1].question_text = "Q2"
    /\ resp.analysis_report[2].question_text = "Q1"
    /\ resp.analysis_report[1].is_correct /\ ~resp.analysis_report[2].is_correct
    /\ resp.analysis_report[2].student_answer = None
    /\ resp.score = 1
    /\ ExamRows("e1") # {}
    /\ \A q \in ExamRows("e1") : q.enable_analysis_report = 0

\* C8: submit_exam grades against the real questions of the exam as they are when
\* it reads them, whatever they were when the session started, and the score lies
\* between 0 and their number
C8_GradesCurrentQuestions ==
    [][GradeStep =>
          /\ sub'.graded.score =
                 Cardinality(CorrectlyAnswered(GradedQuestions(sub'.request.exam_id),
                                               sub'.request.answers))
          /\ 0 <= sub'.graded.score
          /\ sub'.graded.score <= Cardinality(RealRows(sub'.request.exam_id))
          /\ \A i \in DOMAIN sub'.all_questions :
                 sub'.all_questions[i] \in GradedQuestions(sub'.request.exam_id)
      ]_vars

\* a session started with Q1 (correct A) and Q2; Q1 was then edited to correct B
\* and Q2 deleted; the submit that answers both as at the start scores 0 of 1
C8_Witness ==
    /\ sub.pc = "finalize"
    /\ started.request.student_id = sub.request.student_id
    /\ Cardinality(started.questions) = 2
    /\ Cardinality(CorrectlyAnswered(started.questions, sub.request.answers)) = 2
    /\ Len(sub.all_questions) = 1
    /\ sub.all_questions[1].question_text = "Q1"
    /\ sub.all_questions[1].correct_option = "B"
    /\ sub.graded.score = 0
    /\ GradedQuestions("e1") = {sub.all_questions[1]}

\* a step in which save_progress returned
SaveStep == resp'.op = "save" /\ sub' = sub

\* C11: a save_progress whose body lacks student_id, exam_id, teacher_id, answers,
\* question_status or time_left returns 400 and leaves in_progress_exams as it was
C11_SaveRejectsMissingField ==
    [][(SaveStep /\ \E f \in SaveFields : ~Has(resp'.request, f)) =>
          /\ resp'.status = 400
          /\ in_progress_exams' = in_progress_exams
      ]_vars

\* a body without time_left was refused while the row of its pair, saved before,
\* is still in the table
C11_Witness ==
    /\ resp.op = "save" /\ resp.status = 400
    /\ ~Has(resp.request, "time_left")
    /\ Has(resp.request, "student_id") /\ Has(resp.request, "exam_id")
    /\ InProgressOf(resp.request.student_id, resp.request.exam_id) # {}
    /\ LastSaveOf(resp.request.student_id, resp.request.exam_id) # {}

\* the messages of the gate's refusals
ExamNotFound == "Exam not found."
StudentNotFound == "Student ID not found or not associated with this exam."
SettingsNotFound == "Could not retrieve exam settings."
AttemptsExhausted == "You have already taken this exam. No more attempts remaining."
NoQuestions == "This exam has no questions. Please contact your teacher."

\* a student on the roster of the teacher of a row of the exam
OnRosterOf(student_id, exam_id) ==
    \E st \in students, q \in ExamRows(exam_id) :
        st.student_id = student_id /\ st.teacher_id = q.teacher_id

\* C12: check_exam_eligibility reports the first precondition that fails, in the
\* order exam not found, student not of the exam's teacher, settings not
\* retrievable, attempts exhausted (403), no real question: an unknown student of
\* a missing exam gets "exam not found", a stranger to an exam that is exhausted
\* or empty gets "student not found", settings that cannot be read (the rows of
\* the exam deleted after the first query) come before attempts and questions,
\* and exhausted attempts come before the missing questions.  The attempts are
\* held against the allowed_attempts of the row of the exam that the gate read
C12_FirstFailureReported ==
    /\ resp.op = "start" =>
          LET s == resp.request.student_id
              e == resp.request.exam_id
          IN  /\ ExamRows(e) = {} =>
                     resp.status = 404 /\ resp.message = ExamNotFound
              /\ (ExamRows(e) # {} /\ ~OnRosterOf(s, e)) =>
                     resp.status = 404 /\ resp.message = StudentNotFound
              /\ (ExamRows(e) # {} /\ OnRosterOf(s, e)) =>
                     \E row \in ExamRows(e) :
                         IF CountResults(s, e) >= row.allowed_attempts
                         THEN /\ resp.status = 403
                              /\ resp.message = AttemptsExhausted
                         ELSE IF RealRows(e) = {}
                         THEN /\ resp.status = 404
                              /\ resp.message = NoQuestions
                         ELSE resp.status = 200
    /\ \A data \in StartRequests : \A exam_teacher \in FetchOne(ExamRows(data.exam_id)) :
          exam_teacher # NoRow =>
              Eligibility(data, exam_teacher, NoRow, <<>>).message =
                  IF OnRosterOf(data.student_id, data.exam_id)
                  THEN SettingsNotFound ELSE StudentNotFound

\* a student who used the attempts of an exam that has lost its questions: two
\* preconditions fail, and the answer is the 403 of the earlier one
C12_Witness ==
    /\ resp.op = "start" /\ resp.status = 403
    /\ RealRows(resp.request.exam_id) = {}
    /\ ExamRows(resp.request.exam_id) # {}
    /\ CountResults(resp.request.student_id, resp.request.exam_id) >= 1

\* C13: check_exam_eligibility returns its payload only to a student of the roster
\* whose teacher_id is the teacher_id of the rows of the exam, and the payload
\* names that teacher; a student of another teacher and an unknown student_id
\* get 404 and no exam_data
C13_OnlyOwnStudentsStart ==
    resp.op = "start" =>
        LET s == resp.request.student_id
            e == resp.request.exam_id
        IN  /\ resp.status = 200 =>
                   \E st \in students :
                       /\ st.student_id = s
                       /\ ExamRows(e) # {}
                       /\ \A q \in ExamRows(e) : q.teacher_id = st.teacher_id
                       /\ resp.teacher_id = st.teacher_id
                       /\ resp.student_name = st.student_name
            /\ ~OnRosterOf(s, e) =>
                   /\ resp.status = 404
                   /\ ~Has(resp, "exam_data")

\* s2, a student of teacher t2 with no attempt made, asked for the exam of t1 that
\* has its settings and a question, and was refused as not found
C13_Witness ==
    /\ resp.op = "start" /\ resp.status = 404 /\ resp.message = StudentNotFound
    /\ resp.request.student_id = "s2"
    /\ \E st \in students : st.student_id = "s2" /\ st.teacher_id = "t2"
    /\ RealRows("e1") # {} /\ ExamSpecs("e1") # {}
    /\ \A q \in ExamRows("e1") : q.teacher_id = "t1"
    /\ CountResults("s2", "e1") = 0

\* C14: the questions of a payload of check_exam_eligibility are the real
\* questions of the exam in some order, each once, with their options, without the
\* settings row and without a correct_option; and the score submit_exam computes
\* is the number of questions the answers map answers correctly by question_text,
\* the same for every order of the questions, whatever order the payload had
C14_ShuffleOnlyReorders ==
    /\ [](resp.op = "start" /\ resp.status = 200 =>
            LET shown == resp.exam_data.questions
                real == RealRows(resp.request.exam_id)
            IN  /\ Len(shown) = Cardinality(real)
                /\ {shown[i].question_text : i \in DOMAIN shown}
                       = {q.question_text : q \in real}
                /\ \A i, j \in DOMAIN shown :
                       i # j => shown[i].question_text # shown[j].question_text
                /\ \A i \in DOMAIN shown :
                       /\ shown[i].question_text # Placeholder
                       /\ DOMAIN shown[i] = {"question_text", "options"}
                       /\ \E q \in real : /\ q.question_text = shown[i].question_text
                                           /\ json_loads(q.options) = shown[i].options)
    /\ [][GradeStep =>
            /\ sub'.graded.score =
                   Cardinality(CorrectlyAnswered(GradedQuestions(sub'.request.exam_id),
                                                 sub'.request.answers))
            /\ \A o \in Orderings(GradedQuestions(sub'.request.exam_id)) :
                   Grade(o, sub'.request.answers).score = sub'.graded.score
         ]_vars

\* the payload listed Q2 before Q1, the submit that followed read Q1 before Q2 and
\* scored both answers
C14_Witness ==
    /\ resp.op = "start" /\ resp.status = 200
    /\ Len(resp.exam_data.questions) = 2
    /\ resp.exam_data.questions[1].question_text = "Q2"
    /\ resp.exam_data.questions[2].question_text = "Q1"
    /\ sub.pc = "finalize"
    /\ sub.request.student_id = resp.request.student_id
    /\ sub.all_questions[1].question_text = "Q1"
    /\ sub.graded.score = 2

\* the row save_progress stores for a request body
SavedRow(data) ==
    InProgressRow(data.student_id, data.exam_id, data.teacher_id,
                  json_dumps(data.answers), data.time_left, json_dumps(data.question_status))

\* C15: a save_progress and a submit_exam of one pair that overlap leave what their
\* two commits leave in the order they happen.  The save's commit, before, within
\* or after the submit, stores its snapshot and creates no Result; the submit's
\* commit, whatever was saved since it graded, adds exactly one Result and leaves
\* the pair without a row; nothing else adds a Result.  So after the submit
\* committed last the pair has no row, and after the save committed last the row
\* is the snapshot and every payload of check_exam_eligibility resumes it
C15_SaveSubmitLastCommitWins ==
    /\ [](/\ (resp.op = "submit" /\ resp.status = 200) =>
               InProgressOf(resp.request.student_id, resp.request.exam_id) = {}
          /\ (resp.op = "save" /\ resp.status = 200) =>
               /\ InProgressOf(resp.request.student_id, resp.request.exam_id)
                      = {SavedRow(resp.request)}
               /\ \A r \in EligibilityResponses([student_id |-> resp.request.student_id,
                                                  exam_id |-> resp.request.exam_id]) :
                      r.status = 200 =>
                          /\ r.exam_data.answers = resp.request.answers
                          /\ r.exam_data.question_status = resp.request.question_status
                          /\ r.exam_data.time_left = resp.request.time_left)
    /\ [][/\ (SaveStep /\ resp'.status = 200) =>
               /\ results' = results
               /\ in_progress_exams' =
                      {r \in in_progress_exams :
                          ~(r.student_id = resp'.request.student_id
                            /\ r.exam_id = resp'.request.exam_id)}
                      \cup {SavedRow(resp'.request)}
          /\ CommitStep =>
               /\ Len(results') = Len(results) + 1
               /\ \A r \in in_progress_exams' :
                      ~(r.student_id = sub.request.student_id
                        /\ r.exam_id = sub.request.exam_id)
          /\ results' # results => CommitStep
         ]_vars

\* the submit of s1 has graded and not yet committed, and a save of s1 for the
\* same exam has committed its snapshot meanwhile
C15_Witness ==
    /\ sub.pc = "finalize"
    /\ resp.op = "save" /\ resp.status = 200
    /\ resp.request.student_id = sub.request.student_id
    /\ resp.request.exam_id = sub.request.exam_id
    /\ InProgressOf(sub.request.student_id, sub.request.exam_id) = {SavedRow(resp.request)}

\* C16: the in_progress_exams row of a pair leaves the table only in a step in
\* which submit_exam commits for that pair and appends the pair's Result: no
\* check_exam_eligibility, no save_progress, no submit_exam that fails and no
\* submit_exam of another pair takes it away
C16_RowLeavesOnlyWithResult ==
    [][\A s \in StudentIds, e \in ExamIds :
          (InProgressOf(s, e) # {} /\ (InProgressOf(s, e))' = {}) =>
              /\ CommitStep
              /\ sub.request.student_id = s /\ sub.request.exam_id = e
              /\ Len(results') = Len(results) + 1
              /\ results'[Len(results')].student_id = s
              /\ results'[Len(results')].exam_id = e
      ]_vars

\* the submit of s2 committed and left s2 without a row; the row of s1, who has
\* no Result, is still in the table
C16_Witness ==
    /\ resp.op = "submit" /\ resp.status = 200
    /\ resp.request.student_id = "s2"
    /\ CountResults("s2", "e1") = 1
    /\ InProgressOf("s2", "e1") = {}
    /\ InProgressOf("s1", "e1") # {}
    /\ CountResults("s1", "e1") = 0

\* C17: results only grows, and only by the commit of a submit_exam: each step
\* leaves the rows it finds as they are (result_id, exam_id, student_id, score,
\* answers), a step that changes the table is a commit that appends one row, and
\* the result_id of that row is the result_id of no row before it
C17_ResultsAppendOnly ==
    /\ [](\A i, j \in DOMAIN results : i # j => results[i].result_id # results[j].result_id)
    /\ [][/\ Len(results') >= Len(results)
          /\ SubSeq(results', 1, Len(results)) = results
          /\ results' # results =>
                 /\ CommitStep
                 /\ results' = Append(results, NewResult(sub.request, sub.graded.score))
                 /\ \A i \in DOMAIN results :
                        results[i].result_id # results'[Len(results')].result_id
         ]_vars

\* s1 submitted twice: two rows with two identities, still there after a save
\* and a start
C17_Witness ==
    /\ Len(results) = 2
    /\ results[1].student_id = "s1" /\ results[2].student_id = "s1"
    /\ results[1].result_id # results[2].result_id
    /\ resp.op = "start"
    /\ InProgressOf("s1", "e1") # {}

\* the message of submit_exam for an exam without real questions
NoQuestionsToGrade == "Could not find questions for this exam to calculate score."

\* C18: a submit_exam that finds no real question of the exam returns 500 with
\* its own message, with or without answers in the body, appends no Result and
\* leaves in_progress_exams as it was; it never goes on to grade and commit
C18_SubmitWithoutQuestionsFails ==
    [][/\ (sub = Idle /\ sub' = Idle /\ resp'.op = "submit"
           /\ RealRows(resp'.request.exam_id) = {}) =>
              /\ resp'.status = 500
              /\ resp'.message = NoQuestionsToGrade
              /\ results' = results
              /\ in_progress_exams' = in_progress_exams
       /\ GradeStep => RealRows(sub'.request.exam_id) # {}
       /\ (sub = Idle /\ sub' = Idle /\ resp'.op = "submit"
           /\ resp'.message = NoQuestionsToGrade) =>
              RealRows(resp'.request.exam_id) = {}
      ]_vars

\* the exam has its settings and no question; s1, who has a saved session, sent
\* answers and got the 500 of the missing questions; the session is still saved
C18_Witness ==
    /\ resp.op = "submit" /\ resp.status = 500 /\ resp.message = NoQuestionsToGrade
    /\ Has(resp.request, "answers")
    /\ ExamSpecs(resp.request.exam_id) # {}
    /\ RealRows(resp.request.exam_id) = {}
    /\ InProgressOf(resp.request.student_id, resp.request.exam_id) # {}
    /\ sub = Idle
    /\ results = <<>>

\* the rows of in_progress_exams whose time_left is 0
Expired == {r \in in_progress_exams : r.time_left = 0}

\* C19: nothing expires a session.  A row with time_left = 0 changes only when
\* save_progress stores a new snapshot of its pair, and leaves the table only
\* when submit_exam commits for its pair; and while it is there a start for the
\* pair is decided as for any other pair: every payload carries time_left = 0 and
\* the saved answers and question_status, and when the student is of the exam's
\* teacher and the exam has a real question, the gate answers with a payload
\* when the attempts taken are below the allowed_attempts it read from a row of
\* the exam, and with 403 otherwise
C19_NoSessionExpiry ==
    /\ [](\A row \in Expired :
            LET s == row.student_id
                e == row.exam_id
                answers == EligibilityResponses([student_id |-> s, exam_id |-> e])
            IN  /\ \A r \in answers :
                       r.status = 200 =>
                           /\ r.exam_data.time_left = 0
                           /\ r.exam_data.answers = json_loads(row.answers)
                           /\ r.exam_data.question_status = json_loads(row.question_status)
                /\ (OnRosterOf(s, e) /\ RealRows(e) # {}) =>
                       \A r \in answers : \E q \in ExamRows(e) :
                           r.status = IF CountResults(s, e) < q.allowed_attempts
                                      THEN 200 ELSE 403)
    /\ [][\A row \in Expired :
            /\ row \notin in_progress_exams' =>
                   \/ /\ CommitStep
                      /\ sub.request.student_id = row.student_id
                      /\ sub.request.exam_id = row.exam_id
                   \/ /\ SaveStep /\ resp'.status = 200
                      /\ resp'.request.student_id = row.student_id
                      /\ resp'.request.exam_id = row.exam_id
            /\ (\A r \in in_progress_exams' :
                    ~(r.student_id = row.student_id /\ r.exam_id = row.exam_id)) =>
                   /\ CommitStep
                   /\ sub.request.student_id = row.student_id
                   /\ sub.request.exam_id = row.exam_id
         ]_vars

\* s1 saved one answer with time_left = 0 and made no attempt; a start returned
\* the payload with time_left = 0 and that answer, and the row is still there
C19_Witness ==
    /\ resp.op = "start" /\ resp.status = 200 /\ resp.request.student_id = "s1"
    /\ resp.exam_data.time_left = 0
    /\ resp.exam_data.answers = [Q1 |-> "B"]
    /\ resp.exam_data.attempt_number = 1
    /\ \E row \in Expired : row.student_id = "s1" /\ row.exam_id = "e1"

\* C20: in a payload of check_exam_eligibility attempt_number is the number of
\* Results of the pair plus one, at least 1 and at most the allowed_attempts the
\* payload gives, which with its duration is that of a row of the exam; and for a
\* pair without an in_progress_exams row the payload has empty answers, empty
\* question_status and time_left = duration * 60
C20_FreshPayload ==
    (resp.op = "start" /\ resp.status = 200) =>
        LET s == resp.request.student_id
            e == resp.request.exam_id
            exam_data == resp.exam_data
        IN  /\ exam_data.attempt_number = CountResults(s, e) + 1
            /\ 1 <= exam_data.attempt_number
            /\ exam_data.attempt_number <= exam_data.allowed_attempts
            /\ \E q \in ExamRows(e) : /\ q.allowed_attempts = exam_data.allowed_attempts
                                      /\ q.duration = exam_data.duration
            /\ InProgressOf(s, e) = {} =>
                   /\ exam_data.answers = EmptyMap
                   /\ exam_data.question_status = EmptyMap
                   /\ exam_data.time_left = exam_data.duration * 60

\* s1 has one Result and no saved session: the payload of its second attempt of
\* two has no answers and the 120 seconds of a duration of 2 minutes
C20_Witness ==
    /\ resp.op = "start" /\ resp.status = 200 /\ resp.request.student_id = "s1"
    /\ CountResults("s1", "e1") = 1
    /\ InProgressOf("s1", "e1") = {}
    /\ resp.exam_data.attempt_number = 2
    /\ resp.exam_data.allowed_attempts = 2
    /\ resp.exam_data.duration = 2
    /\ resp.exam_data.time_left = 120
    /\ resp.exam_data.answers = EmptyMap
    /\ resp.exam_data.question_status = EmptyMap

\* the pairs of the specification of pairs, and the Results of a pair
AllPairs == {"s1", "s2"} \X {"e1", "e2"}
ResultsOf(student_id, exam_id) ==
    {results[i] : i \in {j \in DOMAIN results : /\ results[j].student_id = student_id
                                                /\ results[j].exam_id = exam_id}}

\* C21: the in_progress_exams row and the Results of a pair change only in a
\* step in which save_progress stores a snapshot of that very pair or
\* submit_exam commits for that very pair: a save or a submit of another student,
\* or of the same student for another exam, leaves them as they are, in every
\* interleaving of the requests
C21_OtherPairsUntouched ==
    [][\A p \in AllPairs :
          (\/ (InProgressOf(p[1], p[2]))' # InProgressOf(p[1], p[2])
           \/ (ResultsOf(p[1], p[2]))' # ResultsOf(p[1], p[2])) =>
              \/ /\ SaveStep /\ resp'.status = 200
                 /\ resp'.request.student_id = p[1] /\ resp'.request.exam_id = p[2]
                 /\ (ResultsOf(p[1], p[2]))' = ResultsOf(p[1], p[2])
              \/ /\ CommitStep
                 /\ sub.request.student_id = p[1] /\ sub.request.exam_id = p[2]
      ]_vars

\* s1 saved for e1 while its submit for e2 was in flight; the rows of (s1, e2)
\* and (s2, e1) and the Result of (s2, e1) are there beside the new row
C21_Witness ==
    /\ resp.op = "save" /\ resp.status = 200
    /\ resp.request.student_id = "s1" /\ resp.request.exam_id = "e1"
    /\ sub.pc = "finalize" /\ sub.request.student_id = "s1" /\ sub.request.exam_id = "e2"
    /\ InProgressOf("s1", "e1") = {SavedRow(resp.request)}
    /\ \E r \in InProgressOf("s1", "e2") : json_loads(r.answers) = SnapshotB.answers
    /\ \E r \in InProgressOf("s2", "e1") : json_loads(r.answers) = SnapshotB.answers
    /\ Cardinality(ResultsOf("s2", "e1")) = 1

\* C22: check_exam_eligibility decides and answers with the settings the exam has
\* now, those of its settings row: a payload carries the duration and the
\* allowed_attempts of that row and is given only below its allowed_attempts, a
\* 403 only at or above it, also for questions uploaded before the settings were
\* last saved
C22_GateUsesCurrentSettings ==
    resp.op = "start" =>
        \A spec \in ExamSpecs(resp.request.exam_id) :
            LET attempts_taken == CountResults(resp.request.student_id, resp.request.exam_id)
            IN  /\ resp.status = 200 =>
                       /\ resp.exam_data.duration = spec.duration
                       /\ resp.exam_data.allowed_attempts = spec.allowed_attempts
                       /\ attempts_taken < spec.allowed_attempts
                /\ resp.status = 403 => attempts_taken >= spec.allowed_attempts

\* C23: every real question in the table belongs to an exam that has its settings
\* row, and check_exam_eligibility gives a payload only for an exam that has it
C23_ExamSpecExists ==
    /\ \A q \in questions :
           q.question_text # Placeholder => ExamSpecs(q.exam_id) # {}
    /\ (resp.op = "start" /\ resp.status = 200) => ExamSpecs(resp.request.exam_id) # {}

\* C24: submit_exam asks nothing of the session.  When the exam has a real
\* question and the body has answers, the request is graded and goes on to its
\* transaction (in the model while results is below MaxResults), whether or not
\* a start was answered before, the pair has a saved
\* row, the Results of the pair have reached allowed_attempts or the student is
\* of the exam's teacher; a submit is turned away before its transaction only for
\* missing questions or missing answers; and the transaction, unless the storage
\* fails, appends the Result of the request
C24_SubmitIgnoresLifecycle ==
    /\ [](\A data \in SubmitRequests :
            (/\ sub = Idle /\ Len(results) < MaxResults
             /\ RealRows(data.exam_id) # {} /\ Has(data, "answers")) =>
                ENABLED (/\ \E all_questions \in Orderings(GradedQuestions(data.exam_id)) :
                                submit_exam_grade(data, all_questions)
                         /\ sub'.pc = "finalize" /\ sub'.request = data))
    /\ [](sub.pc = "finalize" =>
            ENABLED (submit_exam_finalize("none") /\ resp'.status = 200
                     /\ results' = Append(results, NewResult(sub.request, sub.graded.score))))
    /\ [][(sub = Idle /\ sub' = Idle /\ resp'.op = "submit") =>
            /\ resp'.status = 500
            /\ \/ RealRows(resp'.request.exam_id) = {}
               \/ ~Has(resp'.request, "answers")
         ]_vars

\* s2, who is not of the teacher of e1, has no saved row and was never given a
\* payload, submitted twice to an exam that allows one attempt: two Results
C24_Witness ==
    /\ resp.op = "submit" /\ resp.status = 200 /\ resp.request.student_id = "s2"
    /\ started.request.student_id = None
    /\ InProgressOf("s2", "e1") = {}
    /\ ~OnRosterOf("s2", "e1")
    /\ CountResults("s2", "e1") = 2
    /\ \E spec \in ExamSpecs("e1") : spec.allowed_attempts = 1

\* C25: save_progress takes an empty answers map and an empty question_status
\* map as it takes a missing field: 400, and in_progress_exams as it was, so that
\* no row ever holds an empty answers or question_status; time_left = 0 is no
\* reason for a 400, and a body that has it with all else is stored with it
C25_EmptyMapsRejectedZeroTimeStored ==
    /\ [](\A r \in in_progress_exams :
            /\ json_loads(r.answers) # EmptyMap
            /\ json_loads(r.question_status) # EmptyMap)
    /\ [][SaveStep =>
            LET data == resp'.request
                empty(f) == Has(data, f) /\ data[f] = EmptyMap
                complete == /\ \A f \in SaveFields : Has(data, f)
                            /\ ~empty("answers") /\ ~empty("question_status")
            IN  /\ (empty("answers") \/ empty("question_status")) =>
                       /\ resp'.status = 400
                       /\ in_progress_exams' = in_progress_exams
                /\ resp'.status = 400 => ~complete
                /\ (complete /\ data.time_left = 0) =>
                       /\ resp'.status \in {200, 500}
                       /\ resp'.status = 200 =>
                              \E r \in in_progress_exams' :
                                  /\ r.student_id = data.student_id
                                  /\ r.exam_id = data.exam_id
                                  /\ r.time_left = 0
         ]_vars

\* s1 has the row of a snapshot saved with time_left = 0, and the body with an
\* empty question_status that came after it was answered 400 and changed nothing
C25_Witness ==
    /\ resp.op = "save" /\ resp.status = 400
    /\ \A f \in SaveFields : Has(resp.request, f)
    /\ resp.request.question_status = EmptyMap
    /\ resp.request.answers # EmptyMap
    /\ InProgressOf("s1", "e1") = {SavedRow(SaveRequest("s1", "t1", SnapshotB))}
    /\ \E r \in InProgressOf("s1", "e1") : r.time_left = 0

====
